---- MODULE Spec2Model ----
(***************************************************************************)
(* Model of image_sorter.py: the ImageSorterApp controller, its load       *)
(* workers (load_next_file.worker / runner / on_complete), its move        *)
(* workers (_move_to.worker / runner / on_complete) and the Tk event queue *)
(* that carries the root.after(0, ...) callbacks to the foreground thread. *)
(*                                                                         *)
(* Python's index is 0-based: files[index] of the source is                *)
(* files[index + 1] here.  None is the record None below.  Thread and      *)
(* video-handle identities are the position of the worker in workers;      *)
(* 0 stands for "no thread" / "no handle".                                 *)
(***************************************************************************)
EXTENDS Integers, Sequences, FiniteSets, TLC

\* ------------------------------------------------------------- bounds
\* Largest number of entries of self.files considered.
MaxFiles == 2
\* Largest number of load workers dispatched in one behaviour.
MaxLoads == 2
\* Largest length of self.actions: no move is started with that many moves
\* recorded.
MaxActions == 1
\* Largest number of directory entries SOURCE_DIR.iterdir() yields at the scan.
MaxEntries == 4

\* ------------------------------------------------------------- constants
IMAGE_EXTS == {".jpg", ".jpeg", ".png", ".webp"}
VIDEO_EXTS == {".mp4", ".mpeg4"}

\* Path.suffix.lower() on the suffixes that occur in the model.
Lower(s) ==
  CASE s = ".JPG" -> ".jpg"
    [] s = ".MP4" -> ".mp4"
    [] OTHER -> s

\* Python's None, as a path / image / error value.
None == [name |-> 0, suffix |-> ""]
NoError == "None"

\* Folder names the user types into folder_entry.  _move_to is also called
\* with "Delete" (send_to_delete) and "Misc" (send_to_misc).
TypedFolders == {"Misc"}
NoFolder == "None"

\* str(exc) for the exceptions the decode can raise; a MemoryError raised
\* without arguments has the empty string as its message.
ExcMessages == {"cannot identify image file", ""}

\* A path of the source directory: its name and its suffix.
Path(n, s) == [name |-> n, suffix |-> s]

\* The lists _get_files can return with at most MaxFiles entries: videos
\* first, then images, each group in ascending name order.
FileLists ==
  { [k \in 1..(nv + ni) |-> IF k <= nv THEN Path(k, ".mp4") ELSE Path(k, ".jpg")] :
      <<nv, ni>> \in { c \in (0..MaxFiles) \X (0..MaxFiles) : c[1] + c[2] \in 1..MaxFiles } }

\* ------------------------------------------------------------- file names
\* In the scan of the source directory a file name is the sequence of the
\* code points of its characters, suffix included.

\* The code points of the suffixes that occur.
SuffixChars(s) ==
  CASE s = ".jpg" -> <<46, 106, 112, 103>>
    [] s = ".JPG" -> <<46, 74, 80, 71>>
    [] s = ".mp4" -> <<46, 109, 112, 52>>
    [] s = ".MP4" -> <<46, 77, 80, 52>>
    [] s = ".txt" -> <<46, 116, 120, 116>>

\* No signature: the file's content yields none.
NoSig == <<>>

\* An entry of the source directory: its name, its suffix, whether it is a
\* regular file, and sig, the colour signature of its content (NoSig when the
\* content has none).
Entry(n, s, f, g) == [name |-> n, suffix |-> s, is_file |-> f, sig |-> g]

\* Signatures of image contents, in tenths.
Sigs == {NoSig, <<10, 0>>, <<9, 1>>, <<0, 10>>}

\* The entries a source directory may hold: videos a.mp4, B.mp4, c.MP4,
\* images a.jpg, B.jpg, c.JPG with any signature, the text file a.txt and
\* the sub-directory d.jpg.
DirEntries ==
  { Entry(<<97>> \o SuffixChars(".mp4"), ".mp4", TRUE, NoSig),
    Entry(<<66>> \o SuffixChars(".mp4"), ".mp4", TRUE, NoSig),
    Entry(<<99>> \o SuffixChars(".MP4"), ".MP4", TRUE, NoSig),
    Entry(<<97>> \o SuffixChars(".txt"), ".txt", TRUE, NoSig),
    Entry(<<100>> \o SuffixChars(".jpg"), ".jpg", FALSE, NoSig) }
  \cup { Entry(<<97>> \o SuffixChars(".jpg"), ".jpg", TRUE, g) : g \in Sigs }
  \cup { Entry(<<66>> \o SuffixChars(".jpg"), ".jpg", TRUE, g) : g \in Sigs }
  \cup { Entry(<<99>> \o SuffixChars(".JPG"), ".JPG", TRUE, g) : g \in Sigs }

\* The elements of a sequence.
Range(s) == { s[k] : k \in 1..Len(s) }

\* What SOURCE_DIR.iterdir() can yield: at most MaxEntries entries with
\* different names, in any order.
Listings ==
  UNION { { l \in [1..n -> DirEntries] :
              \A i, j \in 1..n : i # j => l[i].name # l[j].name } :
          n \in 0..MaxEntries }

\* The contents .sorted_history.txt may have when the program starts.
Ledgers == SUBSET { <<97>> \o SuffixChars(".mp4"), <<97>> \o SuffixChars(".jpg") }

\* Python's < on str, which orders the Path objects of one directory:
\* lexicographic by code point, a proper prefix first.
StrLess(a, b) ==
  \E i \in 1..(Len(a) + 1) :
    /\ \A k \in 1..(i - 1) : k <= Len(b) /\ a[k] = b[k]
    /\ i <= Len(b)
    /\ i <= Len(a) => a[i] < b[i]

\* Insertion of path p into the ascending sequence s, after its equals.
RECURSIVE Insert(_, _)
Insert(p, s) ==
  IF s = <<>> THEN <<p>>
  ELSE IF StrLess(p.name, Head(s).name) THEN <<p>> \o s
  ELSE <<Head(s)>> \o Insert(p, Tail(s))

\* Sorted with the sort left out.
Unsorted(s) == s

\* sorted(paths) (line 247): the paths in ascending order.
RECURSIVE Sorted(_)
Sorted(s) ==
  IF s = <<>> THEN <<>>
  ELSE Insert(s[Len(s)], Sorted(SubSeq(s, 1, Len(s) - 1)))

\* The paths of the entries of listing that are in wanted, in listing order
\* (the appends of lines 243-246).
RECURSIVE Collect(_, _)
Collect(listing, wanted) ==
  IF listing = <<>> THEN <<>>
  ELSE (IF Head(listing) \in wanted
        THEN <<Path(Head(listing).name, Head(listing).suffix)>> ELSE <<>>)
       \o Collect(Tail(listing), wanted)

\* _get_files (lines 236-249) for the entries iterdir() yields and the
\* processed names ledger.
GetFiles(listing, ledger) ==
  LET Wanted(e) == e.is_file /\ e.name \notin ledger
      images == Collect(listing, { e \in Range(listing) :
                  Wanted(e) /\ Lower(e.suffix) \in IMAGE_EXTS })
      videos == Collect(listing, { e \in Range(listing) :
                  /\ Wanted(e)
                  /\ Lower(e.suffix) \notin IMAGE_EXTS
                  /\ Lower(e.suffix) \in VIDEO_EXTS })
  IN Sorted(videos) \o Sorted(images)

VARIABLES
  files,              \* self.files
  index,              \* self.index
  current_path,       \* self.current_path
  current_image_pil,  \* self.current_image_pil (the path the image was decoded from)
  video_cap,          \* self.video_cap (handle id, 0 = None)
  video_playing,      \* self.video_playing
  load_generation,    \* self.load_generation
  loading_thread,     \* self.loading_thread (thread id, 0 = None)
  exited,             \* whether the thread self.loading_thread refers to has ended
  actions,            \* self.actions
  last_folder_name,   \* self.last_folder_name
  moving_file,        \* self.moving_file
  sorted_names,       \* self.sorted_names
  info_label,         \* text of self.info_label
  preview_label,      \* what self.preview_label shows: its image when one is
                      \* set (the path it was decoded from), else its text
  workers,            \* the load threads started so far, in start order
  move_threads,       \* the move threads that are still running
  after_queue,        \* callbacks scheduled with root.after(0, ...), oldest first
  location,           \* the file system: where each file name currently is
  cap_released,       \* per video handle: how often release() was called on it
  last_call,          \* the most recent call of load_next_file: the thread it
                      \* started (0 = none) and, oldest first, the results
                      \* on_complete has received since, each with its verdict
  scan,               \* the startup scan: the entries SOURCE_DIR.iterdir()
                      \* yields, in the order it yields them, and whether
                      \* self.files has been assigned from them
  last_move           \* the most recent call of _move_to that started a move:
                      \* the controller's fields and the file system as they
                      \* were at the call, and what became of the move;
                      \* forgotten at the next skip_file or undo_last_action

fg == <<files, index, current_path, current_image_pil, video_cap, video_playing,
        load_generation, loading_thread, actions, last_folder_name, moving_file,
        sorted_names, info_label, preview_label>>

vars == <<files, index, current_path, current_image_pil, video_cap, video_playing,
          load_generation, loading_thread, exited, actions, last_folder_name,
          moving_file, sorted_names, info_label, preview_label,
          workers, move_threads, after_queue, location, cap_released,
          last_call, scan, last_move>>

\* ------------------------------------------------------------- helpers

\* Contents of preview_label: config(image="", text=t) and config(image=...).
Text(t) == [text |-> t, image |-> None]
Picture(p) == [text |-> "", image |-> p]
Blank == Text("")

\* line 600: self.loading_thread and self.loading_thread.is_alive(); a thread
\* is alive until its runner has returned.
IsAlive(t) == t # 0 /\ ~exited

\* NextGeneration without the increment.
NextGenerationSame(g) == g

\* line 625: generation = self.load_generation + 1
NextGeneration(g) == g + 1

\* IsStale with the comparison left out: every result is taken.
IsStaleNever(gen, current) == FALSE

\* IsStale as a test for results that are too new only.
IsStaleOnlyNewer(gen, current) == gen > current

\* IsStale that rejects every result.
IsStaleAlways(gen, current) == TRUE

\* line 645: gen != self.load_generation
IsStale(gen, current) == gen # current

\* Python truthiness of the error element of a result (line 654: if error).
Truthy(error) == error # NoError /\ error # ""

\* The result tuple a worker hands to on_complete.
Result(w) == [gen   |-> workers[w].generation,
              path  |-> workers[w].path,
              img   |-> workers[w].img,
              cap   |-> IF workers[w].cap # None THEN w ELSE 0,
              error |-> workers[w].error]

\* ReleaseHeld without the call of release().
ReleaseHeldForgotten(cap) == cap_released

\* cap.release() as stop_video_preview (lines 536-538) performs it on
\* self.video_cap and on_complete (lines 646-647) on the cap of a stale result.
ReleaseHeld(cap) ==
  IF cap # 0 THEN [cap_released EXCEPT ![cap] = @ + 1] ELSE cap_released

\* No move has been requested since the last skip or undo.
NoMove == [outcome |-> "none", before |-> <<>>]

\* The controller's fields and the file system as _move_to finds them.
Snapshot ==
  [index |-> index, actions |-> actions, sorted_names |-> sorted_names,
   last_folder_name |-> last_folder_name, current_path |-> current_path,
   load_generation |-> load_generation, location |-> location,
   loads |-> Len(workers)]

\* ------------------------------------------------------------- load_next_file

\* A thread object for a worker dispatched for files[idx] (lines 616-626,
\* 676-682): ext and generation are captured when it is created; requested
\* records the value of self.current_path at that moment; img and cap are
\* the file the decoded image / the opened video handle was read from.
NewWorker(gen, p) ==
  [generation |-> gen, ext |-> Lower(p.suffix), requested |-> p, pc |-> "start",
   path |-> None, img |-> None, cap |-> None, error |-> NoError]

\* load_next_file (lines 594-682), called with self.index = idx and
\* self.moving_file = mv.  It stops the preview, bumps the generation when the
\* loading thread is alive, and then either shows "All done" or makes
\* files[idx] current and starts a worker thread for it.
LoadNextFile(idx, mv) ==
  LET bumped == IF IsAlive(loading_thread) THEN load_generation + 1
                ELSE load_generation
      p      == files[idx + 1]
      gen    == NextGeneration(bumped)
  IN /\ video_playing' = FALSE
     /\ cap_released' = ReleaseHeld(video_cap) \o
                        (IF ~mv /\ idx < Len(files) THEN <<0>> ELSE <<>>)
     /\ video_cap' = 0
     /\ current_image_pil' = None
     /\ IF mv
        THEN /\ load_generation' = bumped
             /\ last_call' = [dispatched |-> 0, results |-> <<>>]
             /\ UNCHANGED <<current_path, info_label, preview_label,
                            workers, loading_thread, exited>>
        ELSE IF idx >= Len(files)
        THEN /\ load_generation' = bumped
             /\ current_path' = None
             /\ preview_label' = Blank
             /\ info_label' = ""
             /\ last_call' = [dispatched |-> 0, results |-> <<>>]
             /\ UNCHANGED <<workers, loading_thread, exited>>
        ELSE /\ current_path' = p
             /\ info_label' = "Loading..."
             /\ load_generation' = gen
             /\ workers' = Append(workers, NewWorker(gen, p))
             /\ loading_thread' = Len(workers) + 1
             /\ exited' = FALSE
             /\ last_call' = [dispatched |-> Len(workers) + 1, results |-> <<>>]
             /\ UNCHANGED preview_label

\* __init__ (lines 35-52, 196-202): the state after construction, including
\* the first load_next_file call, for a non-empty file list.
Init ==
  \E fl \in FileLists :
    LET p == fl[1] IN
    /\ files = fl
    /\ index = 0
    /\ current_path = p
    /\ current_image_pil = None
    /\ video_cap = 0
    /\ video_playing = FALSE
    /\ load_generation = NextGeneration(0)
    /\ loading_thread = 1
    /\ exited = FALSE
    /\ actions = <<>>
    /\ last_folder_name = NoFolder
    /\ moving_file = FALSE
    /\ sorted_names = {}
    /\ info_label = "Loading..."
    /\ preview_label = Blank
    /\ workers = <<NewWorker(NextGeneration(0), p)>>
    /\ move_threads = <<>>
    /\ after_queue = <<>>
    /\ location = [n \in 1..Len(fl) |-> "source"]
    /\ cap_released = <<0>>
    /\ last_call = [dispatched |-> 1, results |-> <<>>]
    /\ scan = [listing |-> [k \in 1..Len(fl) |-> Entry(fl[k].name, fl[k].suffix, TRUE, NoSig)],
               done |-> TRUE]
    /\ last_move = NoMove

\* ------------------------------------------------------------- load worker

\* Whether the file the worker opens is there to be read.
Readable(p) == p # None /\ location[p.name] = "source"

\* worker (lines 628-641), up to the point where the decode has returned or
\* raised: it reads self.current_path and decodes that file according to the
\* ext captured at dispatch.  Image.open raises for a missing file and for a
\* file that is not an image; any decode may fail on a readable file too.
WorkerDecode(w) ==
  /\ workers[w].pc = "start"
  /\ LET p == current_path IN
     \/ /\ workers[w].ext \in IMAGE_EXTS
        /\ Readable(p)
        /\ Lower(p.suffix) \in IMAGE_EXTS
        /\ workers' = [workers EXCEPT ![w].pc = "decoded", ![w].img = p]
     \/ /\ workers[w].ext \in IMAGE_EXTS
        /\ \E m \in ExcMessages :
             workers' = [workers EXCEPT ![w].pc = "decoded", ![w].error = m]
     \/ /\ workers[w].ext \in VIDEO_EXTS
        /\ Readable(p)
        /\ workers' = [workers EXCEPT ![w].pc = "decoded", ![w].cap = p]
     \/ /\ workers[w].ext \in VIDEO_EXTS
        /\ workers' = [workers EXCEPT ![w].pc = "decoded",
                                      ![w].error = "Could not open video"]
     \/ /\ workers[w].ext \notin IMAGE_EXTS \cup VIDEO_EXTS
        /\ workers' = [workers EXCEPT ![w].pc = "decoded",
                                      ![w].error = "Unsupported file type"]
  /\ UNCHANGED <<fg, exited, move_threads, after_queue, location, cap_released,
                 last_call, scan, last_move>>

\* worker's return statement and runner (lines 633-641, 676-678): the result
\* tuple is built with the value self.current_path has now, and on_complete is
\* scheduled on the foreground with root.after(0, ...).
WorkerReturn(w) ==
  /\ workers[w].pc = "decoded"
  /\ workers' = [workers EXCEPT ![w].pc = "posted", ![w].path = current_path]
  /\ after_queue' = Append(after_queue, [kind |-> "load", id |-> w])
  /\ UNCHANGED <<fg, exited, move_threads, location, cap_released, last_call,
                 scan, last_move>>

\* The runner returns and the thread ends: is_alive() is false from here on.
\* Only self.loading_thread is ever asked is_alive() (line 600), so the end of
\* any other thread is not a step of the model.
ThreadExit(w) ==
  /\ workers[w].pc \in {"posted", "done"}
  /\ w = loading_thread
  /\ ~exited
  /\ exited' = TRUE
  /\ UNCHANGED <<fg, workers, move_threads, after_queue, location,
                 cap_released, last_call, scan, last_move>>

\* ------------------------------------------------------------- on_complete

\* The thread object once on_complete has returned: the result tuple is no
\* longer referenced.
Consumed(t) ==
  [t EXCEPT !.pc = "done", !.path = None, !.img = None, !.cap = None,
            !.error = NoError]

\* on_complete (lines 643-674) run by the event loop for the oldest scheduled
\* callback, with start_video_preview (lines 541-552) for a video result.
LoadComplete ==
  /\ after_queue # <<>>
  /\ Head(after_queue).kind = "load"
  /\ LET w == Head(after_queue).id
         r == Result(w)
     IN /\ after_queue' = Tail(after_queue)
        /\ IF IsStale(r.gen, load_generation)
           THEN /\ cap_released' = ReleaseHeld(r.cap)
                /\ last_call' = [last_call EXCEPT !.results =
                                   Append(@, [id |-> w, accepted |-> FALSE])]
                /\ UNCHANGED <<fg, exited>>
           ELSE /\ loading_thread' = 0
                /\ exited' = FALSE
                /\ current_path' = r.path
                /\ last_call' = [last_call EXCEPT !.results =
                                   Append(@, [id |-> w, accepted |-> TRUE])]
                /\ IF Truthy(r.error)
                   THEN /\ preview_label' = Text(r.error)
                        /\ info_label' = ""
                        /\ UNCHANGED <<current_image_pil, video_cap, video_playing,
                                       cap_released>>
                   ELSE IF r.img # None
                   THEN /\ current_image_pil' = r.img
                        /\ preview_label' = Picture(r.img)
                        /\ info_label' = ""
                        /\ UNCHANGED <<video_cap, video_playing, cap_released>>
                   ELSE IF r.cap # 0
                   THEN /\ cap_released' = ReleaseHeld(video_cap)
                        /\ video_cap' = r.cap
                        /\ video_playing' = TRUE
                        /\ preview_label' = Picture(workers[w].cap)
                        /\ info_label' = "Video playing in preview"
                        /\ UNCHANGED current_image_pil
                   ELSE /\ info_label' = ""
                        /\ UNCHANGED <<preview_label, current_image_pil,
                                       video_cap, video_playing, cap_released>>
                /\ UNCHANGED <<files, index, load_generation, actions,
                               last_folder_name, moving_file, sorted_names>>
        /\ workers' = [workers EXCEPT ![w] = Consumed(workers[w])]
  /\ UNCHANGED <<move_threads, location, scan, last_move>>

\* ------------------------------------------------------------- actions

\* The model stops starting load threads after MaxLoads of them: a handler
\* whose load_next_file call would start one more is not taken.
CanLoad(idx) == idx >= Len(files) \/ Len(workers) < MaxLoads

\* Removal of the i-th element of a sequence.
RemoveAt(s, i) == [k \in 1..(Len(s) - 1) |-> IF k < i THEN s[k] ELSE s[k + 1]]

\* skip_file that drops the skipped file from self.files instead of stepping
\* index over it.
SkipFileDropping ==
  /\ current_path # None
  /\ ~moving_file
  /\ CanLoad(index + 1)
  /\ files' = RemoveAt(files, index + 1)
  /\ LoadNextFile(index + 1, moving_file)
  /\ last_move' = NoMove
  /\ UNCHANGED <<index, actions, last_folder_name, moving_file, sorted_names,
                 move_threads, after_queue, location, scan>>

\* skip_file without the test of self.moving_file.
SkipFileWhileMoving ==
  /\ current_path # None
  /\ CanLoad(index + 1)
  /\ index' = index + 1
  /\ LoadNextFile(index + 1, moving_file)
  /\ last_move' = NoMove
  /\ UNCHANGED <<files, actions, last_folder_name, moving_file, sorted_names,
                 move_threads, after_queue, location, scan>>

\* skip_file (lines 777-781).
skip_file ==
  /\ current_path # None
  /\ ~moving_file
  /\ CanLoad(index + 1)
  /\ index' = index + 1
  /\ LoadNextFile(index + 1, moving_file)
  /\ last_move' = NoMove
  /\ UNCHANGED <<files, actions, last_folder_name, moving_file, sorted_names,
                 move_threads, after_queue, location, scan>>

\* _move_to (lines 706-718, 750-754): the foreground part, up to the start of
\* the move thread.  Its completion callback calls load_next_file for
\* index + 1, and index does not change while the move is in flight: a move
\* whose completion would start a load beyond MaxLoads is not started.
MoveTo(folder) ==
  /\ current_path # None
  /\ ~moving_file
  /\ Len(actions) < MaxActions
  /\ CanLoad(index + 1)
  /\ moving_file' = TRUE
  /\ video_playing' = FALSE
  /\ cap_released' = ReleaseHeld(video_cap)
  /\ video_cap' = 0
  /\ move_threads' = Append(move_threads, [path |-> current_path, folder |-> folder])
  /\ last_move' = [outcome |-> "pending", before |-> Snapshot]
  /\ UNCHANGED <<files, index, current_path, current_image_pil, load_generation,
                 loading_thread, exited, actions, last_folder_name, sorted_names, info_label,
                 preview_label, workers, after_queue, location,
                 last_call, scan>>

\* move_current_file (lines 756-763) with a non-empty folder name typed.
move_current_file ==
  /\ current_path # None
  /\ ~moving_file
  /\ \E folder \in TypedFolders : MoveTo(folder)

\* add_to_previous_folder (lines 765-767).
add_to_previous_folder ==
  /\ current_path # None
  /\ last_folder_name # NoFolder
  /\ ~moving_file
  /\ MoveTo(last_folder_name)

\* send_to_delete (lines 769-771).
send_to_delete ==
  /\ current_path # None
  /\ ~moving_file
  /\ MoveTo("Delete")

\* send_to_misc (lines 773-775).
send_to_misc ==
  /\ current_path # None
  /\ ~moving_file
  /\ MoveTo("Misc")

\* _move_to.worker and runner (lines 720-728, 750-752): shutil.move succeeds
\* only for a file that is in the source directory, and may fail for such a
\* file too; the result is scheduled for the foreground.
MoveWorker(i) ==
  /\ i \in 1..Len(move_threads)
  /\ LET t == move_threads[i] IN
     \/ /\ location[t.path.name] = "source"
        /\ location' = [location EXCEPT ![t.path.name] = t.folder]
        /\ after_queue' = Append(after_queue,
             [kind |-> "move", path |-> t.path, folder |-> t.folder,
              dest |-> t.folder, error |-> FALSE])
     \/ /\ UNCHANGED location
        /\ after_queue' = Append(after_queue,
             [kind |-> "move", path |-> t.path, folder |-> t.folder,
              dest |-> NoFolder, error |-> TRUE])
  /\ move_threads' = RemoveAt(move_threads, i)
  /\ UNCHANGED <<fg, exited, workers, cap_released, last_call, scan, last_move>>

\* on_complete without its test of the error at line 735: a failed move is
\* recorded like a successful one.
MoveCompleteIgnoringError ==
  /\ after_queue # <<>>
  /\ Head(after_queue).kind = "move"
  /\ LET r == Head(after_queue) IN
     /\ after_queue' = Tail(after_queue)
     /\ moving_file' = FALSE
     /\ last_move' = [last_move EXCEPT !.outcome = IF r.error THEN "failed" ELSE "moved"]
     /\ CanLoad(index + 1)
     /\ actions' = Append(actions, [name |-> r.path.name, dest |-> r.dest])
     /\ sorted_names' = sorted_names \cup {r.path.name}
     /\ index' = index + 1
     /\ last_folder_name' = r.folder
     /\ LoadNextFile(index + 1, FALSE)
  /\ UNCHANGED <<files, move_threads, location, scan>>

\* _move_to.on_complete (lines 730-748) with _mark_sorted (lines 222-226),
\* run by the event loop for the oldest scheduled callback.
MoveComplete ==
  /\ after_queue # <<>>
  /\ Head(after_queue).kind = "move"
  /\ LET r == Head(after_queue) IN
     /\ after_queue' = Tail(after_queue)
     /\ moving_file' = FALSE
     /\ last_move' = [last_move EXCEPT !.outcome = IF r.error THEN "failed" ELSE "moved"]
     /\ IF r.error
        THEN UNCHANGED <<index, current_path, current_image_pil, video_cap,
                         video_playing, load_generation, loading_thread, exited, actions,
                         last_folder_name, sorted_names, info_label,
                         preview_label, workers, cap_released, last_call>>
        ELSE /\ CanLoad(index + 1)
             /\ actions' = Append(actions, [name |-> r.path.name, dest |-> r.dest])
             /\ sorted_names' = sorted_names \cup {r.path.name}
             /\ index' = index + 1
             /\ last_folder_name' = r.folder
             /\ LoadNextFile(index + 1, FALSE)
  /\ UNCHANGED <<files, move_threads, location, scan>>

\* undo_last_action (lines 783-805) with _unmark_sorted_by_name (lines
\* 228-231), when there is something to undo.
undo_last_action ==
  /\ ~moving_file
  /\ actions # <<>>
  /\ LET last    == actions[Len(actions)]
         idx     == IF index > 0 THEN index - 1 ELSE index
     IN /\ actions' = SubSeq(actions, 1, Len(actions) - 1)
        /\ last_move' = NoMove
        /\ IF location[last.name] # last.dest
           THEN UNCHANGED <<index, current_path, current_image_pil, video_cap,
                            video_playing, load_generation, loading_thread, exited,
                            sorted_names, info_label, preview_label,
                            workers, cap_released, last_call, location>>
           ELSE /\ CanLoad(idx)
                /\ location' = [location EXCEPT ![last.name] = "source"]
                /\ sorted_names' = sorted_names \ {last.name}
                /\ index' = idx
                /\ LoadNextFile(idx, moving_file)
  /\ UNCHANGED <<files, last_folder_name, moving_file, move_threads, after_queue,
                 scan>>

Next ==
  \/ skip_file
  \/ move_current_file
  \/ add_to_previous_folder
  \/ send_to_delete
  \/ send_to_misc
  \/ undo_last_action
  \/ LoadComplete
  \/ MoveComplete
  \/ \E w \in 1..Len(workers) : WorkerDecode(w)
  \/ \E w \in 1..Len(workers) : WorkerReturn(w)
  \/ \E w \in 1..Len(workers) : ThreadExit(w)
  \/ \E i \in 1..Len(move_threads) : MoveWorker(i)

Spec == Init /\ [][Next]_vars

\* ------------------------------------------------------------- the folders
\* The destination folders are ordinary directories: what the program has
\* moved there can be removed by the user or another program at any time.

\* The file named n is removed from the folder the program moved it to.
RemoveOutside(n) ==
  /\ location[n] \notin {"source", "missing"}
  /\ location' = [location EXCEPT ![n] = "missing"]
  /\ UNCHANGED <<fg, exited, workers, move_threads, after_queue, cap_released,
                 last_call, scan, last_move>>

NextOutside ==
  \/ Next
  \/ \E n \in DOMAIN location : RemoveOutside(n)

\* Spec with the destination folders open to removals from outside.
SpecOutside == Init /\ [][NextOutside]_vars

\* The load thread w, if there is one, returns from its worker.
Returns(w) == w \in 1..Len(workers) /\ WorkerReturn(w)

\* Spec with the scheduling the claims about progress rely on: the Tk event
\* loop (root.mainloop) runs every callback scheduled with root.after(0, ...),
\* and a thread whose decode has finished goes on to return its result.
FairSpec ==
  /\ Spec
  /\ WF_vars(LoadComplete)
  /\ WF_vars(MoveComplete)
  /\ \A w \in 1..MaxLoads : WF_vars(Returns(w))

\* ------------------------------------------------------------- the scan
\* The start of __init__ on its own: the state at line 35, when the ledger
\* has been read and self.files is not assigned yet, and the call of
\* _get_files at line 36.

InitScan ==
  \E l \in Listings, ledger \in Ledgers :
    /\ scan = [listing |-> l, done |-> FALSE]
    /\ sorted_names = ledger
    /\ files = <<>>
    /\ index = 0
    /\ current_path = None
    /\ current_image_pil = None
    /\ video_cap = 0
    /\ video_playing = FALSE
    /\ load_generation = 0
    /\ loading_thread = 0
    /\ exited = FALSE
    /\ actions = <<>>
    /\ last_folder_name = NoFolder
    /\ moving_file = FALSE
    /\ info_label = ""
    /\ preview_label = Blank
    /\ workers = <<>>
    /\ move_threads = <<>>
    /\ after_queue = <<>>
    /\ location = <<>>
    /\ cap_released = <<>>
    /\ last_call = [dispatched |-> 0, results |-> <<>>]
    /\ last_move = NoMove

\* line 36: self.files = self._get_files()
AssignFiles ==
  /\ ~scan.done
  /\ files' = GetFiles(scan.listing, sorted_names)
  /\ scan' = [scan EXCEPT !.done = TRUE]
  /\ UNCHANGED <<index, current_path, current_image_pil, video_cap, video_playing,
                 load_generation, loading_thread, exited, actions,
                 last_folder_name, moving_file, sorted_names, info_label,
                 preview_label, workers, move_threads, after_queue, location,
                 cap_released, last_call, last_move>>

NextScan == AssignFiles

SpecScan == InitScan /\ [][NextScan]_vars

\* ------------------------------------------------------------- types

TypeOK ==
  /\ index \in Nat
  /\ load_generation \in Nat
  /\ Len(cap_released) = Len(workers)
  /\ Len(workers) <= MaxLoads

\* ------------------------------------------------------------- properties

\* The event loop runs on_complete for the result of load thread w in this step.
Delivers(w) ==
  /\ after_queue # <<>>
  /\ Head(after_queue) = [kind |-> "load", id |-> w]
  /\ after_queue' = Tail(after_queue)

\* What the user sees and what the controller holds of the current file.
shown == <<current_path, current_image_pil, video_cap, video_playing, preview_label>>

\* C1: when a load result reaches on_complete with a generation other than
\* load_generation, the step changes none of current_path, current_image_pil,
\* video_cap, the preview, loading_thread and index; so a step of on_complete
\* that changes one of them carries the current generation.
C1_StaleResultChangesNothing ==
  [][\A w \in 1..Len(workers) :
       (Delivers(w) /\ workers[w].generation # load_generation)
         => UNCHANGED <<shown, info_label, loading_thread, index>>]_vars

\* A stale result has been discarded since the last load_next_file call.
C1_Witness ==
  \E k \in 1..Len(last_call.results) : ~last_call.results[k].accepted

\* C2: once load_next_file has been called again, the result of a load
\* requested before that call is never accepted: a result that on_complete
\* receives and that is not the one of the thread the most recent
\* load_next_file call started (none when that call showed "All done")
\* changes neither current_path nor the displayed image nor the playing video.
C2_EarlierLoadNeverAccepted ==
  [][\A w \in 1..Len(workers) :
       (Delivers(w) /\ last_call.dispatched # w) => UNCHANGED shown]_vars

\* C3: when a second worker has been started before the first worker's result
\* is processed, the first worker's result is discarded whenever it arrives:
\* on_complete changes nothing for a result of a thread that is not the most
\* recently started one, and records it as discarded.
C3_SupersededResultDiscarded ==
  [][\A w \in 1..Len(workers) :
       (Delivers(w) /\ w < Len(workers))
         => /\ UNCHANGED <<shown, info_label, loading_thread>>
            /\ ~last_call'.results[Len(last_call'.results)].accepted]_vars

\* Worker 2 was started while worker 1 was outstanding, worker 2's result was
\* accepted and worker 1's result arrived after it and was discarded.
C3_Witness ==
  /\ Len(workers) = 2
  /\ last_call.dispatched = 2
  /\ last_call.results = <<[id |-> 2, accepted |-> TRUE], [id |-> 1, accepted |-> FALSE]>>

\* C4: load_generation never decreases; a step that starts a worker strictly
\* increases it and gives the worker a generation no earlier worker has; and a
\* result whose generation is below load_generation is discarded.
C4_GenerationMonotone ==
  [][/\ load_generation' >= load_generation
     /\ Len(workers') > Len(workers)
          => /\ load_generation' > load_generation
             /\ workers'[Len(workers')].generation = load_generation'
             /\ \A w \in 1..Len(workers) :
                  workers[w].generation # workers'[Len(workers')].generation
     /\ \A w \in 1..Len(workers) :
          (Delivers(w) /\ workers[w].generation < load_generation)
            => /\ UNCHANGED <<shown, info_label, loading_thread>>
               /\ ~last_call'.results[Len(last_call'.results)].accepted]_vars

\* A second worker was started while the first thread was alive (the
\* generation went up by two) and the first worker's result was discarded.
C4_Witness ==
  /\ Len(workers) >= 2
  /\ workers[2].generation = workers[1].generation + 2
  /\ \E k \in 1..Len(last_call.results) :
       last_call.results[k] = [id |-> 1, accepted |-> FALSE]

\* C5: every video handle delivered to the foreground is released exactly
\* once.  No handle is ever released twice; a handle is released only after
\* its result was delivered, and never while the foreground holds it as
\* video_cap; a handle in a stale result is released by the discarding step;
\* a handle in an accepted result becomes video_cap; and whenever the
\* foreground lets go of video_cap (stop_video_preview) it releases it.
C5_HandleReleasedOnce ==
  /\ [](\A h \in 1..Len(workers) :
          /\ cap_released[h] <= 1
          /\ cap_released[h] = 1 => (workers[h].pc = "done" /\ video_cap # h))
  /\ [][/\ \A w \in 1..Len(workers) :
             (Delivers(w) /\ workers[w].cap # None)
               => \/ cap_released'[w] = 1 /\ video_cap' # w
                  \/ cap_released'[w] = 0 /\ video_cap' = w
        /\ (video_cap # 0 /\ video_cap' # video_cap)
             => cap_released'[video_cap] = 1]_vars

\* One handle came in a stale result and was released by the discard, and
\* another one was accepted, held as video_cap and released by a later
\* stop_video_preview.
C5_Witness ==
  /\ \E k \in 1..Len(last_call.results) :
       /\ ~last_call.results[k].accepted
       /\ cap_released[last_call.results[k].id] = 1
  /\ \E h \in 1..Len(workers) :
       /\ cap_released[h] = 1
       /\ \A k \in 1..Len(last_call.results) : last_call.results[k].id # h
  /\ video_cap = 0

\* How often load thread w has a callback in the event queue.
Scheduled(w) ==
  Cardinality({k \in 1..Len(after_queue) : after_queue[k] = [kind |-> "load", id |-> w]})

\* C6: each load worker hands its result to the foreground exactly once (one
\* callback, scheduled when the worker returns and gone once on_complete has
\* run), and between two calls of load_next_file at most one result is
\* accepted, however many workers are in flight.
C6_OneResultPerLoad ==
  /\ \A w \in 1..Len(workers) :
       /\ Scheduled(w) = (IF workers[w].pc = "posted" THEN 1 ELSE 0)
       /\ Cardinality({k \in 1..Len(last_call.results) :
                         last_call.results[k].id = w}) <= 1
  /\ Cardinality({k \in 1..Len(last_call.results) :
                    last_call.results[k].accepted}) <= 1

\* Two results arrived after the same load_next_file call, one accepted and
\* one discarded, while the call's own worker had company in flight.
C6_Witness ==
  /\ Len(last_call.results) = 2
  /\ \E k \in 1..2 : last_call.results[k].accepted

\* The result of load thread w reports a decode failure.
Failed(w) == workers[w].error # NoError

\* C7: a decode failure is delivered as a result with a reason, no image and
\* no video handle, through the same callback as a success, and under the same
\* generation check: a stale failure changes nothing, and a failure that
\* carries the current generation is shown as an error in the preview.
C7_FailureShownAsError ==
  /\ [](\A w \in 1..Len(workers) :
          Failed(w) => (workers[w].img = None /\ workers[w].cap = None))
  /\ [][\A w \in 1..Len(workers) :
          (Delivers(w) /\ Failed(w))
            => IF workers[w].generation # load_generation
               THEN UNCHANGED <<shown, info_label, loading_thread>>
               ELSE /\ preview_label' = Text(workers[w].error)
                    /\ current_image_pil' = None
                    /\ video_cap' = 0]_vars

\* C8: after on_complete has accepted a failure result for files[index]
\* (index < len(files)), current_path is that file and moving_file is false,
\* so that skip_file goes on to the next file.
C8_FailureDoesNotHalt ==
  [][\A w \in 1..Len(workers) :
       (/\ Delivers(w)
        /\ Truthy(workers[w].error)
        /\ workers[w].generation = load_generation
        /\ index < Len(files)
        /\ workers[w].path = files[index + 1])
         => /\ current_path' = files[index + 1]
            /\ ~moving_file'
            /\ index' = index]_vars

\* A step taken by a load thread: its worker decoded or returned.
WorkerStep ==
  \E w \in 1..Len(workers) :
    /\ Len(workers') = Len(workers)
    /\ workers'[w].pc # workers[w].pc
    /\ workers'[w].pc \in {"decoded", "posted"}

\* Some load thread has not got anywhere while a later one was started.
Hung == \E h \in 1..Len(workers) : h < Len(workers) /\ workers[h].pc = "start"

C10_WorkerUsesDispatchPath ==
  \A w \in 1..Len(workers) :
    /\ workers[w].img # None => workers[w].img = workers[w].requested
    /\ workers[w].cap # None => workers[w].cap = workers[w].requested
    /\ workers[w].pc = "posted" => workers[w].path = workers[w].requested

\* ------------------------------------------------------------- the scan's properties

\* A path has a supported video / image extension.
IsVideoPath(p) == Lower(p.suffix) \in VIDEO_EXTS
IsImagePath(p) == Lower(p.suffix) \in IMAGE_EXTS

\* The entries of the listing the visitation sequence is to contain: regular
\* files with a supported extension whose name is not in the ledger.
Unprocessed ==
  { e \in Range(scan.listing) :
      /\ e.is_file
      /\ IsVideoPath(e) \/ IsImagePath(e)
      /\ e.name \notin sorted_names }

\* The listing with the entries at positions i and j exchanged.
Exchanged(l, i, j) ==
  [k \in 1..Len(l) |-> IF k = i THEN l[j] ELSE IF k = j THEN l[i] ELSE l[k]]

Thresholds == 0..MaxEntries

\* The image part of the visitation sequence.
ImagePart == SelectSeq(files, IsImagePath)

\* str.lower() of a file name.
LowerName(n) == [k \in 1..Len(n) |-> IF n[k] \in 65..90 THEN n[k] + 32 ELSE n[k]]

\* C12: when there are more images than THRESHOLD, the image part of the
\* visitation sequence is in lexicographic order of the lowercase names,
\* also for names that differ in letter case.
C12_ManyImagesSortedIgnoringCase ==
  \A t \in Thresholds :
    (scan.done /\ Len(ImagePart) > t)
      => \A i, j \in 1..Len(ImagePart) :
           i < j => ~StrLess(LowerName(ImagePart[j].name), LowerName(ImagePart[i].name))

\* Sum of squared differences of two signatures.
RECURSIVE Distance(_, _)
Distance(a, b) ==
  IF a = <<>> THEN 0
  ELSE (Head(a) - Head(b)) * (Head(a) - Head(b)) + Distance(Tail(a), Tail(b))

\* The entry of the non-empty set S with the least name.
LeastName(S) == CHOOSE e \in S : \A o \in S : o = e \/ StrLess(e.name, o.name)

\* The entry of the non-empty set S whose signature is nearest to that of
\* tail, the least name among the nearest.
Nearest(S, tail) ==
  LeastName({ e \in S : \A o \in S : Distance(e.sig, tail.sig) <= Distance(o.sig, tail.sig) })

\* The greedy nearest-neighbour chain through the signed entries S that
\* continues a chain ending in tail.
RECURSIVE Chain(_, _)
Chain(S, tail) ==
  IF S = {} THEN <<>>
  ELSE LET n == Nearest(S, tail) IN <<n>> \o Chain(S \ {n}, n)

\* The entries of S in ascending order of their names.
RECURSIVE ByName(_)
ByName(S) ==
  IF S = {} THEN <<>>
  ELSE LET n == LeastName(S) IN <<n>> \o ByName(S \ {n})

\* The order the similarity orderer gives the image entries S.
SimilarityOrder(S) ==
  LET signed == { e \in S : e.sig # NoSig }
      seed   == LeastName(signed)
  IN (IF signed = {} THEN <<>> ELSE <<seed>> \o Chain(signed \ {seed}, seed))
     \o ByName(S \ signed)

\* C13: when there are at most THRESHOLD images, the image part of the
\* visitation sequence is the greedy nearest-neighbour chain: it starts with
\* the signed image of least name, goes on each time with the remaining signed
\* image whose signature has the least sum of squared differences to the
\* previous one's (the least name among equals), and ends with the images
\* without signature in name order.
C13_FewImagesChainedBySimilarity ==
  \A t \in Thresholds :
    (scan.done /\ Len(ImagePart) <= t)
      => LET order == SimilarityOrder({ e \in Unprocessed : IsImagePath(e) })
         IN ImagePart = [k \in 1..Len(order) |-> Path(order[k].name, order[k].suffix)]

\* ------------------------------------------------------------- the controller's properties, continued

\* C14: self.files is never changed once it has been built: no skip, move
\* request, move completion (successful or failed), undo, load completion or
\* stale discard adds, removes or reorders its elements.
C14_FilesNeverChange == [][files' = files]_vars

\* Both files have been gone over, one of them by a successful move, and a
\* load result has been discarded as stale on the way.
C14_Witness ==
  /\ Len(files) = 2
  /\ index = 2
  /\ Len(actions) = 1
  /\ \E w \in 1..Len(workers) : workers[w].pc = "done" /\ workers[w].generation < load_generation

\* The result most recently accepted since the last load_next_file call
\* (0 when none was).
LastAccepted ==
  LET acc == { k \in 1..Len(last_call.results) : last_call.results[k].accepted }
  IN IF acc = {} THEN 0
     ELSE last_call.results[CHOOSE k \in acc : \A o \in acc : o <= k].id

\* C15: the handle the foreground holds (video_cap) is unreleased and is the
\* one of the most recently accepted load result; video_cap takes a new
\* handle only from a result that on_complete accepts, never from a stale
\* one; and when video_cap lets go of a handle, for a new one or for none,
\* that handle is released in the same step.
C15_SingleOwnerOfVideoHandle ==
  /\ [](video_cap # 0 => /\ cap_released[video_cap] = 0
                         /\ LastAccepted = video_cap)
  /\ [][/\ (video_cap' # 0 /\ video_cap' # video_cap)
             => /\ Delivers(video_cap')
                /\ workers[video_cap'].generation = load_generation
                /\ workers[video_cap'].cap # None
        /\ \A w \in 1..Len(workers) :
             (Delivers(w) /\ workers[w].generation # load_generation)
               => video_cap' # w /\ video_cap' = video_cap
        /\ (video_cap # 0 /\ video_cap' # video_cap)
             => cap_released'[video_cap] = cap_released[video_cap] + 1]_vars

\* The foreground holds the handle of the second video, accepted after the
\* handle of the first video was released.
C15_Witness ==
  /\ video_cap = 2
  /\ video_playing
  /\ cap_released[1] = 1
  /\ workers[1].generation < workers[2].generation
  /\ LastAccepted = 2

\* on_complete has accepted the result of load thread w since the last
\* load_next_file call.
Accepted(w) ==
  \E k \in 1..Len(last_call.results) : last_call.results[k] = [id |-> w, accepted |-> TRUE]

\* C16: when the worker that the most recent load_next_file call started has
\* finished its decode, then, with the worker thread and the event loop
\* scheduled fairly, its result is eventually accepted (the info line leaves
\* "Loading..." and loading_thread is cleared) unless load_next_file is called
\* again first; and a result is received only by a step of the event loop
\* that takes its callback from the head of the queue.
C16_LatestRequestEventuallyAccepted ==
  /\ \A w \in 1..MaxLoads :
       (/\ last_call.dispatched = w
        /\ workers[w].pc # "start")
         ~> \/ last_call.dispatched # w
            \/ Accepted(w) /\ info_label # "Loading..." /\ loading_thread = 0
  /\ [][last_call'.results # last_call.results /\ last_call'.results # <<>>
         => \E w \in 1..Len(workers) :
              /\ Delivers(w)
              /\ last_call'.results = Append(last_call.results,
                    [id |-> w, accepted |-> workers[w].generation = load_generation])]_vars

\* The result of the worker the first load_next_file call started has been
\* accepted, no other call having been made.
C16_Witness ==
  /\ last_call.dispatched = 1
  /\ Accepted(1)
  /\ info_label # "Loading..."
  /\ loading_thread = 0
  /\ index = 0

\* C17: in every reachable state 0 <= index <= len(files), so that the
\* status line never reports a negative number of remaining files.
C17_IndexWithinFiles == 0 <= index /\ index <= Len(files)

\* C18: between the handlers, current_path is None exactly when
\* index >= len(files) and is files[index] otherwise; and once current_path
\* is None ("All done") it stays None until undo_last_action is invoked.
C18_CurrentPathFollowsIndex ==
  /\ [](IF index >= Len(files) THEN current_path = None
                               ELSE current_path = files[index + 1])
  /\ [][(current_path = None /\ current_path' # None)
          => Len(actions') < Len(actions)]_vars

\* The move threads that are running or whose completion callback has not
\* run yet.
MovesInFlight ==
  Len(move_threads) + Cardinality({ k \in 1..Len(after_queue) : after_queue[k].kind = "move" })

\* The event loop runs the completion callback of a move in this step.
MoveCallbackRuns ==
  /\ after_queue # <<>>
  /\ Head(after_queue).kind = "move"
  /\ after_queue' = Tail(after_queue)

\* C19: at most one move is in flight, and moving_file is true exactly while
\* one is; while moving_file is true move_current_file,
\* add_to_previous_folder, send_to_delete, send_to_misc, skip_file and
\* undo_last_action do nothing, so that index, actions, the processed ledger,
\* current_path and load_generation change only when the move's completion
\* callback runs; and that callback resets moving_file, on success and on
\* failure.
C19_OneMoveAndHandlersBlocked ==
  /\ [](/\ MovesInFlight <= 1
        /\ moving_file <=> MovesInFlight = 1
        /\ moving_file => /\ ~ENABLED move_current_file
                          /\ ~ENABLED add_to_previous_folder
                          /\ ~ENABLED send_to_delete
                          /\ ~ENABLED send_to_misc
                          /\ ~ENABLED skip_file
                          /\ ~ENABLED undo_last_action)
  /\ [][/\ (moving_file /\ ~MoveCallbackRuns)
             => UNCHANGED <<index, actions, sorted_names, current_path,
                            load_generation, moving_file>>
        /\ MoveCallbackRuns => moving_file /\ ~moving_file']_vars

\* A move is in flight that was requested after an earlier move had been
\* completed and undone, and its worker has failed: the failure is waiting in
\* the event queue.
C19_Witness ==
  /\ moving_file
  /\ last_folder_name # NoFolder
  /\ \E k \in 1..Len(after_queue) : after_queue[k].kind = "move" /\ after_queue[k].error

\* C20: while a move is in flight (moving_file true) the preview holds no
\* open video handle and plays no video: on_complete accepts no load result
\* and starts no video preview, also when the load of the file was still in
\* flight when the move was requested.
C20_NoLoadAcceptedDuringMove ==
  /\ [](moving_file => video_cap = 0 /\ ~video_playing)
  /\ [][\A w \in 1..Len(workers) :
          (Delivers(w) /\ moving_file)
            => /\ ~last_call'.results[Len(last_call'.results)].accepted
               /\ UNCHANGED shown]_vars

\* The event loop runs the completion callback of a move whose worker
\* returned an error.
MoveFailureReported == MoveCallbackRuns /\ Head(after_queue).error

\* C21: when a move fails, index, actions, the processed ledger,
\* last_folder_name, current_path and load_generation are, once the failure
\* has been reported, what they were before the move was requested; neither
\* the request nor the report asks for a load; and moving_file is false
\* again.
C21_FailedMoveChangesNothing ==
  [][MoveFailureReported
       => /\ last_move.outcome = "pending"
          /\ index' = last_move.before.index
          /\ actions' = last_move.before.actions
          /\ sorted_names' = last_move.before.sorted_names
          /\ last_folder_name' = last_move.before.last_folder_name
          /\ current_path' = last_move.before.current_path
          /\ load_generation' = last_move.before.load_generation
          /\ Len(workers') = last_move.before.loads
          /\ last_call'.dispatched = last_call.dispatched
          /\ moving_file /\ ~moving_file']_vars

\* The failure of a move has been reported and nothing has been skipped or
\* undone since; the file is still in the source directory.
C21_Witness ==
  /\ last_move.outcome = "failed"
  /\ ~moving_file
  /\ last_move.before.current_path # None
  /\ location[last_move.before.current_path.name] = "source"

\* undo_last_action moves the file of the last action back to the source
\* directory in this step.
UndoSucceeds ==
  /\ actions # <<>>
  /\ actions' = SubSeq(actions, 1, Len(actions) - 1)
  /\ location[actions[Len(actions)].name] # "source"
  /\ location'[actions[Len(actions)].name] = "source"

\* The load_next_file call of this step starts a load of the file p, which
\* it makes the current file.
LoadRequestedFor(p) ==
  /\ Len(workers') = Len(workers) + 1
  /\ workers'[Len(workers')].requested = p
  /\ last_call'.dispatched = Len(workers')
  /\ current_path' = p

\* C22: a successful move of the current file followed by undo_last_action,
\* with no other operation of the user in between, is a round trip: index,
\* actions, the processed ledger and the location of the files are what they
\* were before the move, and the undo requests a load of the file that was
\* moved.
C22_MoveThenUndoIsRoundTrip ==
  [][(UndoSucceeds /\ last_move.outcome = "moved")
       => /\ index' = last_move.before.index
          /\ actions' = last_move.before.actions
          /\ sorted_names' = last_move.before.sorted_names
          /\ location' = last_move.before.location
          /\ LoadRequestedFor(last_move.before.current_path)]_vars

\* C22 for the moves of a file that load_next_file made current at its
\* place in the sequence.
C22_RoundTripWithinSequence ==
  [][(UndoSucceeds /\ last_move.outcome = "moved"
        /\ last_move.before.index < Len(files))
       => /\ index' = last_move.before.index
          /\ actions' = last_move.before.actions
          /\ sorted_names' = last_move.before.sorted_names
          /\ location' = last_move.before.location
          /\ LoadRequestedFor(last_move.before.current_path)]_vars

\* The undo of this step makes the file whose move it undoes the current
\* file: index is its place in files and a load of it is requested.
UndoneFileIsCurrent ==
  \E i \in 1..Len(files) :
    /\ files[i].name = actions[Len(actions)].name
    /\ index' = i - 1
    /\ LoadRequestedFor(files[i])

\* C23: after any sequence of moves and skips, a successful undo_last_action
\* makes the file whose move was undone the current file again: files[index]
\* is the restored file and the load requested is for it, also when files
\* were skipped between the move and the undo.
C23_UndoMakesRestoredFileCurrent ==
  [][UndoSucceeds => UndoneFileIsCurrent]_vars

\* C23 for the undos requested before any load worker has run, so that no
\* load result has been delivered, accepted or discarded.
C23_UndoBeforeAnyLoadRuns ==
  [][(UndoSucceeds /\ \A w \in 1..Len(workers) : workers[w].pc = "start")
       => UndoneFileIsCurrent]_vars

\* undo_last_action would find the file of the last action missing at its
\* recorded destination.
UndoFindsFileMissing ==
  /\ ~moving_file
  /\ actions # <<>>
  /\ location[actions[Len(actions)].name] # actions[Len(actions)].dest

\* C24: when undo_last_action cannot proceed because the moved file is
\* missing at its recorded destination, it leaves the actions stack, index,
\* the processed ledger and current_path unchanged, so that the same undo can
\* be retried later: the record of the move stays on the stack for as long
\* as the file is missing.
C24_FailedUndoKeepsRecord ==
  [][UndoFindsFileMissing => actions' = actions]_vars

\* The undo that finds the file missing leaves index, the processed ledger,
\* current_path and the files where they are.
C24_FailedUndoKeepsTheRest ==
  [][(UndoFindsFileMissing /\ actions' # actions)
       => UNCHANGED <<index, sorted_names, current_path, location,
                      load_generation, workers>>]_vars

====
